---- MODULE Spec2Model ----
(***************************************************************************)
(* Model of the TCP load balancer of src/src/main.rs: the accept loop of   *)
(* main (the Dispatcher), select_backend with its availability probes,     *)
(* the per-connection task spawned by main, and handle_connection (the     *)
(* tunnel relay built on two io::copy futures raced by tokio::select!).    *)
(***************************************************************************)
EXTENDS Integers, Sequences, FiniteSets, TLC

\* ------------------------------------------------------------------ bounds
\* Number of inbound connections the listener accepts in the model.
MaxConns == 2
\* Largest pool handed to select_backend when it is checked on its own.
MaxPool == 3
\* Largest counter value drawn for a pool handed to select_backend.
MaxCount == 2
\* Bytes each peer may send on one connection when the relay is checked on its own.
MaxBytes == 2

\* usize::MAX (main.rs:38), at the width of TLC's integers.
USIZE_MAX == 2147483647

\* --------------------------------------------------------------- constants
Dirs == {"c2s", "s2c"}
Conns == 1..MaxConns

VARIABLES
    backends,          \* VecDeque<Backend>: records [address, active_connections]
    pc,                \* position of main: "accept", "select", "selected", "fatal"
    socket,            \* the connection main's loop iteration holds (0: none)
    iter,              \* position of `for backend in backends`
    min_conn_backend,  \* index into backends of the clone held, 0 for None
    min_conns,
    probed,            \* outcomes of check_backend_available in this selection
    stable,            \* no counter was changed since this selection started
    accepted,          \* connections accepted so far
    conn               \* per connection: the spawned task and its two sockets

vars == <<backends, pc, socket, iter, min_conn_backend, min_conns, probed,
          stable, accepted, conn>>

selectVars == <<iter, min_conn_backend, min_conns, probed>>

\* One direction of the relay: the source peer's write side (eof), bytes the
\* peer sent that io::copy has not read (pend), bytes in io::copy's buffer
\* (buf), bytes written to the destination (got).
Stream0 == [eof |-> FALSE, pend |-> 0, buf |-> 0, got |-> 0]

\* A connection: the position of its task (st), the Arc and address the task
\* holds, the two sockets of handle_connection, the select! branch taken
\* (first) with its copy result, the write halves, the two directions, and
\* the history of the task: increments and decrements it performed, and what
\* the other direction held (inflight) and had delivered (delivered0) when
\* the branch was taken.
Conn0 == [st |-> "none", backend |-> 0, backend_address |-> "",
          socket |-> "none", backend_socket |-> "none",
          first |-> "none", copy_result |-> "none", handle_result |-> "none",
          wo |-> "open", wi |-> "open",
          dir |-> [d \in Dirs |-> Stream0],
          incs |-> 0, decs |-> 0, inflight |-> 0, delivered0 |-> 0]

Other(d) == IF d = "c2s" THEN "s2c" ELSE "c2s"

\* main.rs:58-68
Pool == << [address |-> "192.168.1.200:80", active_connections |-> 0],
           [address |-> "192.168.1.27:80", active_connections |-> 0] >>

Init ==
    /\ backends = Pool
    /\ pc = "accept"
    /\ socket = 0
    /\ iter = 1
    /\ min_conn_backend = 0
    /\ min_conns = USIZE_MAX
    /\ probed = <<>>
    /\ stable = TRUE
    /\ accepted = 0
    /\ conn = [c \in Conns |-> Conn0]

\* Mutant: the spawned tasks outlive the return of main.
RunningDetached == TRUE

\* The process runs until accept fails (main returns, the runtime drops every task).
Running == pc # "fatal"

\* A counter is changed by a task while a selection is in progress.
Disturb == IF pc \in {"select", "selected"} THEN FALSE ELSE stable

\* ------------------------------------------------------------ select_backend
\* Mutant: `conns <= min_conns`, the last backend at the minimum wins.
ScanLastMin(available, idx, conns, mcb, mc) ==
    IF available /\ conns <= mc
    THEN [min_conn_backend |-> idx, min_conns |-> conns]
    ELSE [min_conn_backend |-> mcb, min_conns |-> mc]

\* Mutant: the outcome of the probe is not looked at.
ScanUnprobed(available, idx, conns, mcb, mc) ==
    IF conns < mc
    THEN [min_conn_backend |-> idx, min_conns |-> conns]
    ELSE [min_conn_backend |-> mcb, min_conns |-> mc]

\* One iteration of the loop body, main.rs:41-47: the new (min_conn_backend, min_conns).
Scan(available, idx, conns, mcb, mc) ==
    IF available /\ conns < mc
    THEN [min_conn_backend |-> idx, min_conns |-> conns]
    ELSE [min_conn_backend |-> mcb, min_conns |-> mc]

\* The probe of backends[iter] resolves (either way) and the loop body runs.
SelectStep ==
    /\ pc = "select"
    /\ iter <= Len(backends)
    /\ \E available \in BOOLEAN :
        LET r == Scan(available, iter, backends[iter].active_connections,
                      min_conn_backend, min_conns)
        IN /\ min_conn_backend' = r.min_conn_backend
           /\ min_conns' = r.min_conns
           /\ probed' = Append(probed, available)
    /\ iter' = iter + 1
    /\ UNCHANGED <<backends, pc, socket, stable, accepted, conn>>

\* The loop is exhausted: select_backend returns min_conn_backend.
SelectReturn ==
    /\ pc = "select"
    /\ iter > Len(backends)
    /\ pc' = "selected"
    /\ UNCHANGED <<backends, socket, selectVars, stable, accepted, conn>>

\* ---------------------------------------------------------------------- main
\* Mutant: the listener is polled while select_backend is still running.
AcceptDuringSelect ==
    /\ pc \in {"accept", "select"}
    /\ accepted < MaxConns
    /\ accepted' = accepted + 1
    /\ socket' = accepted + 1
    /\ conn' = [conn EXCEPT ![accepted + 1].st = "accepted",
                            ![accepted + 1].socket = "open"]
    /\ pc' = "select"
    /\ iter' = 1
    /\ min_conn_backend' = 0
    /\ min_conns' = USIZE_MAX
    /\ probed' = <<>>
    /\ stable' = TRUE
    /\ UNCHANGED backends

\* Mutant: main waits for the task it spawned before it accepts again.
AcceptSerial ==
    /\ pc = "accept"
    /\ accepted < MaxConns
    /\ \A c \in Conns : conn[c].st \in {"none", "rejected", "done"}
    /\ accepted' = accepted + 1
    /\ socket' = accepted + 1
    /\ conn' = [conn EXCEPT ![accepted + 1].st = "accepted",
                            ![accepted + 1].socket = "open"]
    /\ pc' = "select"
    /\ iter' = 1
    /\ min_conn_backend' = 0
    /\ min_conns' = USIZE_MAX
    /\ probed' = <<>>
    /\ stable' = TRUE
    /\ UNCHANGED backends

Accept ==
    /\ pc = "accept"
    /\ accepted < MaxConns
    /\ accepted' = accepted + 1
    /\ socket' = accepted + 1
    /\ conn' = [conn EXCEPT ![accepted + 1].st = "accepted",
                            ![accepted + 1].socket = "open"]
    /\ pc' = "select"
    /\ iter' = 1
    /\ min_conn_backend' = 0
    /\ min_conns' = USIZE_MAX
    /\ probed' = <<>>
    /\ stable' = TRUE
    /\ UNCHANGED backends

\* listener.accept().await? returns Err: main returns, the process ends.
AcceptError ==
    /\ pc = "accept"
    /\ pc' = "fatal"
    /\ UNCHANGED <<backends, socket, selectVars, stable, accepted, conn>>

\* Mutant: main increments the counter itself before tokio::spawn.
SpawnCounted ==
    /\ pc = "selected"
    /\ min_conn_backend # 0
    /\ backends' = [backends EXCEPT ![min_conn_backend].active_connections = @ + 1]
    /\ conn' = [conn EXCEPT ![socket].st = "spawned",
                            ![socket].incs = @ + 1,
                            ![socket].backend = min_conn_backend,
                            ![socket].backend_address =
                                backends[min_conn_backend].address]
    /\ pc' = "accept"
    /\ socket' = 0
    /\ iter' = 1
    /\ min_conn_backend' = 0
    /\ min_conns' = USIZE_MAX
    /\ probed' = <<>>
    /\ stable' = TRUE
    /\ UNCHANGED accepted

\* Some(backend): clone the Arc and the address, tokio::spawn the task.
Spawn ==
    /\ pc = "selected"
    /\ min_conn_backend # 0
    /\ conn' = [conn EXCEPT ![socket].st = "spawned",
                            ![socket].backend = min_conn_backend,
                            ![socket].backend_address =
                                backends[min_conn_backend].address]
    /\ pc' = "accept"
    /\ socket' = 0
    /\ iter' = 1
    /\ min_conn_backend' = 0
    /\ min_conns' = USIZE_MAX
    /\ probed' = <<>>
    /\ stable' = TRUE
    /\ UNCHANGED <<backends, accepted>>

\* Mutant: with no backend returned, main falls back to the first of the pool.
RejectFallback ==
    /\ pc = "selected"
    /\ min_conn_backend = 0
    /\ conn' = [conn EXCEPT ![socket].st = "spawned",
                            ![socket].backend = 1,
                            ![socket].backend_address = backends[1].address]
    /\ pc' = "accept"
    /\ socket' = 0
    /\ iter' = 1
    /\ min_conn_backend' = 0
    /\ min_conns' = USIZE_MAX
    /\ probed' = <<>>
    /\ stable' = TRUE
    /\ UNCHANGED <<backends, accepted>>

\* None: log the error; the accepted socket is dropped at the end of the iteration.
Reject ==
    /\ pc = "selected"
    /\ min_conn_backend = 0
    /\ conn' = [conn EXCEPT ![socket].st = "rejected",
                            ![socket].socket = "closed"]
    /\ pc' = "accept"
    /\ socket' = 0
    /\ iter' = 1
    /\ min_conn_backend' = 0
    /\ min_conns' = USIZE_MAX
    /\ probed' = <<>>
    /\ stable' = TRUE
    /\ UNCHANGED <<backends, accepted>>

\* ------------------------------------------------------------ spawned task
\* Mutant: the task increments the counter of the first backend of the pool.
IncrementFront(c) ==
    /\ Running
    /\ conn[c].st = "spawned"
    /\ backends' = [backends EXCEPT ![1].active_connections = @ + 1]
    /\ conn' = [conn EXCEPT ![c].incs = @ + 1, ![c].st = "connecting"]
    /\ stable' = Disturb
    /\ UNCHANGED <<pc, socket, selectVars, accepted>>

\* Mutant: the task writes back a count computed from a stale read of 0.
IncrementStale(c) ==
    /\ Running
    /\ conn[c].st = "spawned"
    /\ backends' = [backends EXCEPT ![conn[c].backend].active_connections = 1]
    /\ conn' = [conn EXCEPT ![c].incs = @ + 1, ![c].st = "connecting"]
    /\ stable' = Disturb
    /\ UNCHANGED <<pc, socket, selectVars, accepted>>

\* Mutant: the task calls handle_connection without the increment.
IncrementSkipped(c) ==
    /\ Running
    /\ conn[c].st = "spawned"
    /\ conn' = [conn EXCEPT ![c].st = "connecting"]
    /\ UNCHANGED <<backends, pc, socket, selectVars, stable, accepted>>

\* { *active_connections.lock() += 1 } then handle_connection is called.
Increment(c) ==
    /\ Running
    /\ conn[c].st = "spawned"
    /\ backends' = [backends EXCEPT ![conn[c].backend].active_connections = @ + 1]
    /\ conn' = [conn EXCEPT ![c].incs = @ + 1, ![c].st = "connecting"]
    /\ stable' = Disturb
    /\ UNCHANGED <<pc, socket, selectVars, accepted>>

\* Mutant: an Err of handle_connection ends the task before the decrement.
DecrementOnSuccess(c) ==
    /\ Running
    /\ conn[c].st = "returned"
    /\ IF conn[c].handle_result = "ok"
       THEN /\ backends' = [backends EXCEPT
                               ![conn[c].backend].active_connections = @ - 1]
            /\ conn' = [conn EXCEPT ![c].decs = @ + 1, ![c].st = "done"]
            /\ stable' = Disturb
       ELSE /\ conn' = [conn EXCEPT ![c].st = "done"]
            /\ UNCHANGED <<backends, stable>>
    /\ UNCHANGED <<pc, socket, selectVars, accepted>>

\* { *active_connections.lock() -= 1 } after handle_connection returned, then the log.
Decrement(c) ==
    /\ Running
    /\ conn[c].st = "returned"
    /\ backends' = [backends EXCEPT ![conn[c].backend].active_connections = @ - 1]
    /\ conn' = [conn EXCEPT ![c].decs = @ + 1, ![c].st = "done"]
    /\ stable' = Disturb
    /\ UNCHANGED <<pc, socket, selectVars, accepted>>

\* --------------------------------------------------------- handle_connection
\* handle_connection returns: its socket and backend_socket are dropped.
Return(c, result) ==
    [conn EXCEPT ![c].st = "returned", ![c].handle_result = result,
                 ![c].socket = "closed",
                 ![c].backend_socket =
                     IF @ = "open" THEN "closed" ELSE @]

\* TcpStream::connect(&backend) succeeds: split both sockets, race the two copies.
ConnectOk(c) ==
    /\ Running
    /\ conn[c].st = "connecting"
    /\ conn' = [conn EXCEPT ![c].st = "relaying", ![c].backend_socket = "open"]
    /\ UNCHANGED <<backends, pc, socket, selectVars, stable, accepted>>

\* Mutant: the Err of the connect ends the task at once, the decrement is skipped.
ConnectFailNoDecrement(c) ==
    /\ Running
    /\ conn[c].st = "connecting"
    /\ conn' = [conn EXCEPT ![c].st = "done", ![c].handle_result = "err",
                            ![c].socket = "closed"]
    /\ UNCHANGED <<backends, pc, socket, selectVars, stable, accepted>>

\* Mutant: the Err of the connect reaches main and ends its loop.
ConnectFailFatal(c) ==
    /\ Running
    /\ conn[c].st = "connecting"
    /\ conn' = Return(c, "err")
    /\ pc' = "fatal"
    /\ UNCHANGED <<backends, socket, selectVars, stable, accepted>>

\* TcpStream::connect(&backend) fails: log, return the Err.
ConnectFail(c) ==
    /\ Running
    /\ conn[c].st = "connecting"
    /\ conn' = Return(c, "err")
    /\ UNCHANGED <<backends, pc, socket, selectVars, stable, accepted>>

\* io::copy of direction d reads bytes of its source into its buffer.
CopyRead(c, d) ==
    /\ Running
    /\ conn[c].st = "relaying"
    /\ conn[c].dir[d].pend > 0
    /\ conn' = [conn EXCEPT ![c].dir[d].pend = @ - 1, ![c].dir[d].buf = @ + 1]
    /\ UNCHANGED <<backends, pc, socket, selectVars, stable, accepted>>

\* io::copy of direction d writes buffered bytes to its destination.
CopyWrite(c, d) ==
    /\ Running
    /\ conn[c].st = "relaying"
    /\ conn[c].dir[d].buf > 0
    /\ conn' = [conn EXCEPT ![c].dir[d].buf = @ - 1, ![c].dir[d].got = @ + 1]
    /\ UNCHANGED <<backends, pc, socket, selectVars, stable, accepted>>

\* io::copy of direction d read end-of-stream and flushed: its select! branch
\* is taken, the other future is dropped with whatever it holds.
CopyDone(c, d) ==
    /\ Running
    /\ conn[c].st = "relaying"
    /\ conn[c].dir[d].eof
    /\ conn[c].dir[d].pend = 0
    /\ conn[c].dir[d].buf = 0
    /\ conn' = [conn EXCEPT ![c].st = "shutdown", ![c].first = d,
                            ![c].copy_result = "ok",
                            ![c].inflight = conn[c].dir[Other(d)].pend
                                            + conn[c].dir[Other(d)].buf,
                            ![c].delivered0 = conn[c].dir[Other(d)].got]
    /\ UNCHANGED <<backends, pc, socket, selectVars, stable, accepted>>

\* Mutant: after a copy error the relay connects to the backend again.
CopyErrorRetry(c, d) ==
    /\ Running
    /\ conn[c].st = "relaying"
    /\ conn' = [conn EXCEPT ![c].st = "connecting", ![c].backend_socket = "closed"]
    /\ UNCHANGED <<backends, pc, socket, selectVars, stable, accepted>>

\* io::copy of direction d returns Err: `?` returns it from handle_connection.
CopyError(c, d) ==
    /\ Running
    /\ conn[c].st = "relaying"
    /\ conn' = [Return(c, "err") EXCEPT ![c].first = d, ![c].copy_result = "err"]
    /\ UNCHANGED <<backends, pc, socket, selectVars, stable, accepted>>

\* Mutant: each branch shuts down the write half of its own source.
ShutdownSwapped(c, ok) ==
    /\ Running
    /\ conn[c].st = "shutdown"
    /\ LET half == IF conn[c].first = "c2s" THEN "wi" ELSE "wo"
           r == Return(c, IF ok THEN "ok" ELSE "err")
       IN conn' = IF half = "wo"
                  THEN [r EXCEPT ![c].wo = IF ok THEN "shutdown" ELSE "failed"]
                  ELSE [r EXCEPT ![c].wi = IF ok THEN "shutdown" ELSE "failed"]
    /\ UNCHANGED <<backends, pc, socket, selectVars, stable, accepted>>

\* wo.shutdown() (client_to_server first) or wi.shutdown() (server_to_client first).
Shutdown(c, ok) ==
    /\ Running
    /\ conn[c].st = "shutdown"
    /\ LET half == IF conn[c].first = "c2s" THEN "wo" ELSE "wi"
           r == Return(c, IF ok THEN "ok" ELSE "err")
       IN conn' = IF half = "wo"
                  THEN [r EXCEPT ![c].wo = IF ok THEN "shutdown" ELSE "failed"]
                  ELSE [r EXCEPT ![c].wi = IF ok THEN "shutdown" ELSE "failed"]
    /\ UNCHANGED <<backends, pc, socket, selectVars, stable, accepted>>

\* ------------------------------------------------------------------- peers
\* The peer writing direction d: the client for c2s, the backend for s2c.
PeerUp(c, d) ==
    IF d = "c2s" THEN conn[c].socket = "open"
    ELSE conn[c].backend_socket = "open"

PeerSend(c, d) ==
    /\ Running
    /\ PeerUp(c, d)
    /\ ~conn[c].dir[d].eof
    /\ conn[c].dir[d].pend + conn[c].dir[d].buf + conn[c].dir[d].got < MaxBytes
    /\ conn' = [conn EXCEPT ![c].dir[d].pend = @ + 1]
    /\ UNCHANGED <<backends, pc, socket, selectVars, stable, accepted>>

\* The peer closes its write side.
PeerEOF(c, d) ==
    /\ Running
    /\ PeerUp(c, d)
    /\ ~conn[c].dir[d].eof
    /\ conn' = [conn EXCEPT ![c].dir[d].eof = TRUE]
    /\ UNCHANGED <<backends, pc, socket, selectVars, stable, accepted>>

\* --------------------------------------------------------- specifications
Dispatcher == Accept \/ AcceptError \/ SelectStep \/ SelectReturn \/ Spawn \/ Reject

Handler(c) ==
    \/ Increment(c)
    \/ ConnectOk(c)
    \/ ConnectFail(c)
    \/ \E d \in Dirs : PeerEOF(c, d)
    \/ \E d \in Dirs : CopyDone(c, d)
    \/ \E d \in Dirs : CopyError(c, d)
    \/ \E ok \in BOOLEAN : Shutdown(c, ok)
    \/ Decrement(c)

Next == Dispatcher \/ \E c \in Conns : Handler(c)

\* The whole program, with peers that send no payload.
Spec == Init /\ [][Next]_vars

\* select_backend on its own: any pool of at most MaxPool backends with any
\* counters, while other tasks keep changing the counters.
SelectPools ==
    UNION { [1..n -> [address : {"192.168.1.200:80"},
                      active_connections : 0..MaxCount]] : n \in 0..MaxPool }

SelectInit ==
    /\ backends \in SelectPools
    /\ pc = "select"
    /\ socket = 1
    /\ iter = 1
    /\ min_conn_backend = 0
    /\ min_conns = USIZE_MAX
    /\ probed = <<>>
    /\ stable = TRUE
    /\ accepted = 1
    /\ conn = [c \in Conns |-> IF c = 1
                 THEN [Conn0 EXCEPT !.st = "accepted", !.socket = "open"]
                 ELSE Conn0]

\* Another task's increment (main.rs:83) or decrement (main.rs:90) of a counter.
OtherTask(b, delta) ==
    /\ pc = "select"
    /\ b \in 1..Len(backends)
    /\ backends[b].active_connections + delta \in 0..MaxCount
    /\ backends' = [backends EXCEPT ![b].active_connections = @ + delta]
    /\ stable' = Disturb
    /\ UNCHANGED <<pc, socket, selectVars, accepted, conn>>

SelectNext ==
    \/ SelectStep
    \/ SelectReturn
    \/ \E b \in 1..MaxPool : \E delta \in {-1, 1} : OtherTask(b, delta)

SelectSpec == SelectInit /\ [][SelectNext]_vars

\* handle_connection and the task around it on their own: the first
\* connection was accepted and its task spawned on either backend; the peers
\* send up to MaxBytes bytes each.
RelayInit ==
    /\ backends = Pool
    /\ pc = "accept"
    /\ socket = 0
    /\ iter = 1
    /\ min_conn_backend = 0
    /\ min_conns = USIZE_MAX
    /\ probed = <<>>
    /\ stable = TRUE
    /\ accepted = 1
    /\ \E b \in 1..Len(Pool) :
        conn = [c \in Conns |-> IF c = 1
                  THEN [Conn0 EXCEPT !.st = "spawned", !.socket = "open",
                                     !.backend = b,
                                     !.backend_address = Pool[b].address]
                  ELSE Conn0]

Relay(c) ==
    \/ \E d \in Dirs : PeerSend(c, d)
    \/ \E d \in Dirs : CopyRead(c, d)
    \/ \E d \in Dirs : CopyWrite(c, d)

RelayNext == \E c \in Conns : Handler(c) \/ Relay(c)

RelaySpec == RelayInit /\ [][RelayNext]_vars

\* The program with a stalled relay: the peers of the first connection stay
\* silent and open for ever, so once its relay started neither copy ever
\* finishes. The listener does not fail and inbound connections keep
\* arriving; the runtime runs every task that can take a step, and the
\* peers of the other connections end their streams.
Stalled == 1

StallNext ==
    \/ Accept \/ SelectStep \/ SelectReturn \/ Spawn \/ Reject
    \/ Increment(Stalled) \/ ConnectOk(Stalled) \/ ConnectFail(Stalled)
    \/ Decrement(Stalled)
    \/ \E c \in Conns \ {Stalled} : Handler(c)

StallFair ==
    /\ WF_vars(Accept) /\ WF_vars(SelectStep) /\ WF_vars(SelectReturn)
    /\ WF_vars(Spawn) /\ WF_vars(Reject)
    /\ \A c \in Conns \ {Stalled} :
        /\ WF_vars(Increment(c))
        /\ WF_vars(ConnectOk(c) \/ ConnectFail(c))
        /\ WF_vars(\E d \in Dirs : PeerEOF(c, d))
        /\ WF_vars(\E d \in Dirs : CopyDone(c, d) \/ CopyError(c, d))
        /\ WF_vars(\E ok \in BOOLEAN : Shutdown(c, ok))
        /\ WF_vars(Decrement(c))

StallSpec == Init /\ [][StallNext]_vars /\ StallFair

\* ------------------------------------------------------------------ claims
Backends == 1..Len(backends)

\* Connections whose task was spawned and has not finished.
InHandler(c) == conn[c].st \in {"spawned", "connecting", "relaying", "shutdown", "returned"}

\* Connections the counter of backend b currently counts.
Counted(b) == {c \in Conns : conn[c].backend = b /\ conn[c].incs > conn[c].decs}

\* C1: once the task of every dispatched connection has finished (its relay
\* returned, with any result, and the task ran to its end), the counter of
\* every backend is 0.
C1_CounterPairing ==
    (\A c \in Conns : ~InHandler(c)) =>
        \A b \in Backends : backends[b].active_connections = 0

\* MaxConns connections were dispatched, relays ended both ways, all tasks finished.
C1_Witness ==
    /\ \A c \in Conns : conn[c].st = "done"
    /\ \E c \in Conns : conn[c].handle_result = "ok"
    /\ \E c \in Conns : conn[c].handle_result = "err" /\ conn[c].backend_socket = "none"
    /\ \A b \in Backends : backends[b].active_connections = 0

\* C2: a connection increments the counter of its chosen backend at most
\* once, and decrements it at most once, after the increment and after
\* handle_connection returned (Ok or Err); a finished task has done both
\* exactly once; and each step changes each counter by exactly what the
\* connections chosen for that backend incremented or decremented in it.
C2_State ==
    \A c \in Conns :
        /\ conn[c].incs \in 0..1
        /\ conn[c].decs \in 0..conn[c].incs
        /\ conn[c].incs = 1 => conn[c].backend \in Backends
        /\ conn[c].decs = 1 => conn[c].handle_result \in {"ok", "err"}
        /\ conn[c].st \in {"connecting", "relaying", "shutdown", "returned"}
               => conn[c].incs = 1 /\ conn[c].decs = 0
        /\ conn[c].st = "done" => conn[c].incs = 1 /\ conn[c].decs = 1

C2_Step ==
    /\ \A c \in Conns :
        /\ conn'[c].incs > conn[c].incs => conn[c].backend # 0
        /\ conn'[c].decs > conn[c].decs =>
              conn[c].incs = 1 /\ conn[c].st = "returned"
        /\ conn[c].backend # 0 => conn'[c].backend = conn[c].backend
    /\ IF \A c \in Conns : conn'[c].incs = conn[c].incs /\ conn'[c].decs = conn[c].decs
       THEN backends' = backends
       ELSE \A b \in Backends :
            LET on == {c \in Conns : conn[c].backend = b}
                ups == Cardinality({c \in on : conn'[c].incs = conn[c].incs + 1})
                downs == Cardinality({c \in on : conn'[c].decs = conn[c].decs + 1})
            IN backends'[b].active_connections
                   = backends[b].active_connections + ups - downs

C2_ExactlyOnce == [](C2_State) /\ [][C2_Step]_vars

\* Two tasks on the second backend, one finished after an Err, one in its relay.
C2_Witness ==
    \E c1, c2 \in Conns :
        /\ conn[c1].backend = 2 /\ conn[c1].st = "done" /\ conn[c1].handle_result = "err"
        /\ conn[c2].backend = 2 /\ conn[c2].st = "relaying"
        /\ backends[2].active_connections = 1

\* C3: no counter is ever negative.
C3_NonNegative == \A b \in Backends : backends[b].active_connections >= 0

\* A decrement took a counter from 1 to 0 while another task is still spawned.
C3_Witness ==
    \E c1, c2 \in Conns :
        /\ conn[c1].st = "done" /\ conn[c2].st = "spawned"
        /\ conn[c1].backend = conn[c2].backend
        /\ backends[conn[c1].backend].active_connections = 0

Count(b) == backends[b].active_connections

\* The earliest backend of the pool whose counter is the minimum (0: empty pool).
FirstMin ==
    IF Len(backends) = 0 THEN 0
    ELSE CHOOSE j \in Backends :
            /\ \A k \in Backends : Count(j) <= Count(k)
            /\ \A k \in 1..(j - 1) : Count(k) > Count(j)

AllProbed(outcome) == \A k \in 1..Len(probed) : probed[k] = outcome

\* C4: when select_backend returns after every probe succeeded and no counter
\* changed during the selection, it returns the backend with the minimum
\* counter, the earliest of the pool among those at the minimum.
C4_LeastLoaded ==
    (pc = "selected" /\ stable /\ AllProbed(TRUE)) => min_conn_backend = FirstMin

\* Three reachable backends, the last two tied at the minimum: the second is returned.
C4_Witness ==
    /\ pc = "selected" /\ stable /\ AllProbed(TRUE)
    /\ Len(backends) = 3
    /\ Count(1) = 2 /\ Count(2) = 1 /\ Count(3) = 1
    /\ min_conn_backend = 2

\* C5: the backend select_backend holds or returns passed its probe in this
\* selection, whatever the counters are and however they change meanwhile.
C5_UnreachableExcluded ==
    (pc \in {"select", "selected"} /\ min_conn_backend # 0) =>
        /\ min_conn_backend \in 1..Len(probed)
        /\ probed[min_conn_backend]

\* Counters 2, 1, 0 with the third backend unreachable: the second is returned.
C5_Witness ==
    /\ pc = "selected"
    /\ Len(backends) = 3
    /\ Count(1) = 2 /\ Count(2) = 1 /\ Count(3) = 0
    /\ probed = <<TRUE, TRUE, FALSE>>
    /\ min_conn_backend = 2

\* C6: select_backend returns None exactly when no backend of the pool passed
\* its probe (none at all for an empty pool); main then drops the accepted
\* socket, spawns no task, changes no counter and no other connection, and
\* is back at accept; a rejected connection stays closed with nothing relayed.
C6_State ==
    /\ pc = "selected" =>
          /\ Len(probed) = Len(backends)
          /\ (min_conn_backend = 0 <=> AllProbed(FALSE))
    /\ \A c \in Conns : conn[c].st = "rejected" =>
          /\ conn[c].socket = "closed"
          /\ conn[c].backend = 0 /\ conn[c].backend_socket = "none"
          /\ conn[c].incs = 0 /\ conn[c].decs = 0
          /\ \A d \in Dirs : conn[c].dir[d].buf = 0 /\ conn[c].dir[d].got = 0

C6_Step ==
    /\ (pc = "selected" /\ min_conn_backend = 0 /\ pc' # pc) =>
          /\ pc' = "accept"
          /\ backends' = backends
          /\ conn'[socket].st = "rejected"
          /\ conn'[socket].socket = "closed"
          /\ \A c \in Conns \ {socket} : conn'[c] = conn[c]
    /\ \A c \in Conns : conn[c].st = "rejected" => conn'[c] = conn[c]

C6_NoBackend == [](C6_State) /\ [][C6_Step]_vars

\* The first connection was rejected and main accepted the second one.
C6_Witness ==
    /\ conn[1].st = "rejected" /\ conn[1].socket = "closed"
    /\ conn[2].st = "accepted" /\ pc = "select"
    /\ \A b \in Backends : Count(b) = 0

C7_State ==
    \A c \in Conns :
        conn[c].st \in {"connecting", "relaying", "shutdown", "returned", "done"}
            => conn[c].incs = 1

C7_Step ==
    \A c \in Conns :
        conn'[c].incs # conn[c].incs =>
            /\ conn[c].st = "spawned" /\ conn'[c].st = "connecting"
            /\ conn'[c].incs = 1
            /\ Count(conn[c].backend)' = Count(conn[c].backend) + 1

Returned(c) == conn[c].st \in {"returned", "done"}

\* C8: when the client's end-of-stream ends the relay and the relay returns
\* Ok, the backend-write half was shut down and every backend-to-client byte
\* that was read or pending when the client-to-backend copy finished has been
\* written to the client.
C8_HalfCloseDelivery ==
    \A c \in Conns :
        (Returned(c) /\ conn[c].first = "c2s" /\ conn[c].handle_result = "ok") =>
            /\ conn[c].wo = "shutdown"
            /\ conn[c].dir["s2c"].got - conn[c].delivered0 >= conn[c].inflight

\* C9 as stated: the branch of the direction that reached end-of-stream first
\* shuts down the write half of its destination, leaves the other write half
\* alone, and the relay result is success.
C9_HalfCloseSuccess ==
    \A c \in Conns :
        (Returned(c) /\ conn[c].copy_result = "ok") =>
            /\ conn[c].handle_result = "ok"
            /\ conn[c].first = "c2s" => conn[c].wo = "shutdown" /\ conn[c].wi = "open"
            /\ conn[c].first = "s2c" => conn[c].wi = "shutdown" /\ conn[c].wo = "open"

\* C9 amended: the relay ends on the first direction to reach end-of-stream,
\* whatever the other direction still holds; it calls shutdown on the write
\* half of that direction's destination and never on the other write half;
\* the relay result is success when that shutdown succeeds and the error of
\* the shutdown when it fails.
C9_HalfCloseDirection ==
    \A c \in Conns :
        /\ conn[c].st = "shutdown" =>
              /\ conn[c].copy_result = "ok" /\ conn[c].first \in Dirs
              /\ conn[c].dir[conn[c].first].eof
              /\ conn[c].dir[conn[c].first].pend = 0
              /\ conn[c].dir[conn[c].first].buf = 0
              /\ conn[c].wo = "open" /\ conn[c].wi = "open"
        /\ (Returned(c) /\ conn[c].copy_result = "ok") =>
              LET dst == IF conn[c].first = "c2s" THEN conn[c].wo ELSE conn[c].wi
                  src == IF conn[c].first = "c2s" THEN conn[c].wi ELSE conn[c].wo
              IN /\ conn[c].first \in Dirs
                 /\ src = "open"
                 /\ dst \in {"shutdown", "failed"}
                 /\ conn[c].handle_result = (IF dst = "shutdown" THEN "ok" ELSE "err")

\* "ping" relayed to the backend, "pong" relayed back, the backend closed its
\* write side first: client-write half shut down, result Ok, counter back at 0,
\* the client never closed its write side.
C9_Witness ==
    \E c \in Conns :
        /\ conn[c].st = "done" /\ conn[c].first = "s2c"
        /\ conn[c].handle_result = "ok"
        /\ conn[c].wi = "shutdown" /\ conn[c].wo = "open"
        /\ conn[c].dir["c2s"].got >= 1 /\ conn[c].dir["s2c"].got >= 1
        /\ ~conn[c].dir["c2s"].eof
        /\ Count(conn[c].backend) = 0

\* C10: when the connect of handle_connection fails, it returns Err with
\* nothing read from or written to either socket and no write half shut
\* down, the client socket is closed by the return, and the task's single
\* increment is undone by a single decrement: the counter is back at the
\* number of the other connections it counts.
C10_ConnectFailure ==
    \A c \in Conns :
        (Returned(c) /\ conn[c].backend_socket = "none") =>
            /\ conn[c].handle_result = "err"
            /\ conn[c].first = "none" /\ conn[c].copy_result = "none"
            /\ \A d \in Dirs : conn[c].dir[d].buf = 0 /\ conn[c].dir[d].got = 0
            /\ conn[c].wo = "open" /\ conn[c].wi = "open"
            /\ conn[c].socket = "closed"
            /\ conn[c].incs = 1
            /\ conn[c].decs = (IF conn[c].st = "done" THEN 1 ELSE 0)
            /\ Count(conn[c].backend) = Cardinality(Counted(conn[c].backend))

\* The connect failed while a byte of the client was pending: the byte was
\* never read, the socket is closed, the counter is back at 0.
C10_Witness ==
    \E c \in Conns :
        /\ conn[c].st = "done" /\ conn[c].backend_socket = "none"
        /\ conn[c].dir["c2s"].pend >= 1
        /\ conn[c].socket = "closed"
        /\ Count(conn[c].backend) = 0

\* The state of main: its position, the socket it holds, the locals of
\* select_backend, the number of connections accepted.
mainVars == <<pc, socket, selectVars, accepted>>

\* C11: a step in which a connection's handle_connection fails (connect,
\* copy or shutdown error), and every later step of that connection's task,
\* leaves main where it is (never ending its loop) and leaves every other
\* connection as it was.
C11_Step ==
    \A c \in Conns :
        (conn'[c] # conn[c] /\ conn'[c].handle_result = "err") =>
            /\ mainVars' = mainVars
            /\ pc # "fatal"
            /\ \A o \in Conns \ {c} : conn'[o] = conn[o]

C11_FailureIsolation == [][C11_Step]_vars

\* The first connection failed at the backend connect and its task finished;
\* main went on, and the second connection it accepted is being relayed.
C11_Witness ==
    /\ conn[1].st = "done" /\ conn[1].handle_result = "err"
    /\ conn[2].st = "relaying"
    /\ pc = "accept"

\* select_backend is suspended in check_backend_available of backends[iter].
ProbePending == pc = "select" /\ iter <= Len(backends)

\* C12: while a probe is suspended, every task in flight can take its next
\* step, and main can accept the next inbound connection (any is left to
\* arrive) before that probe completes.
C12_NonBlockingProbe ==
    ProbePending =>
        /\ \A c \in Conns : InHandler(c) => ENABLED Handler(c)
        /\ accepted < MaxConns => ENABLED Accept

\* The state of the per-connection state machine a connection record is in:
\* Idle until handle_connection is called, BackendConnecting during its
\* connect, Relaying inside the select!, HalfClosed / Failed once
\* handle_connection returned Ok / Err, Closed once the task has decremented
\* and ended.
Phase(r) ==
    CASE r.st \in {"none", "accepted", "spawned"} -> "Idle"
      [] r.st = "connecting" -> "BackendConnecting"
      [] r.st \in {"relaying", "shutdown"} -> "Relaying"
      [] r.st = "returned" /\ r.handle_result = "ok" -> "HalfClosed"
      [] r.st = "returned" /\ r.handle_result # "ok" -> "Failed"
      [] r.st = "done" -> "Closed"
      [] OTHER -> "Rejected"

PhaseEdges ==
    { <<"Idle", "BackendConnecting">>, <<"BackendConnecting", "Relaying">>,
      <<"Relaying", "HalfClosed">>, <<"HalfClosed", "Closed">>,
      <<"BackendConnecting", "Failed">>, <<"Relaying", "Failed">>,
      <<"Failed", "Closed">> }

\* The write half the taken branch called shutdown on.
ShutHalf(r) == IF r.first = "c2s" THEN r.wo ELSE r.wi

\* The edges of the state machine, for a dispatched connection, with Closed
\* terminal, HalfClosed entered with a write half shut down, and Failed
\* entered from BackendConnecting by a failed connect.
PhaseStep(c) ==
    LET p == Phase(conn[c])
        q == Phase(conn'[c])
    IN /\ p # q => <<p, q>> \in PhaseEdges
       /\ p = "Closed" => conn'[c] = conn[c]
       /\ (p # q /\ q = "HalfClosed") =>
             conn'[c].copy_result = "ok" /\ ShutHalf(conn'[c]) = "shutdown"
       /\ (p = "BackendConnecting" /\ q = "Failed") =>
             conn'[c].backend_socket = "none"
       /\ (p = "BackendConnecting" /\ q = "Relaying") =>
             conn'[c].backend_socket = "open"

\* C13 as stated: every dispatched connection moves only along the edges of
\* the state machine, leaves Relaying for Failed only when a copy errors,
\* and never leaves Closed.
C13_Original ==
    \A c \in Conns : conn[c].backend # 0 =>
        /\ PhaseStep(c)
        /\ (Phase(conn[c]) = "Relaying" /\ Phase(conn'[c]) = "Failed") =>
              conn'[c].copy_result = "err"

C13_StateMachineAsStated == [][C13_Original]_vars

\* C13 amended: the same edges, but Relaying is left for Failed when a copy
\* errors or when, after a copy reached end-of-stream, the shutdown of the
\* write half errors (HalfClosed is then not entered).
C13_Amended ==
    \A c \in Conns : conn[c].backend # 0 =>
        /\ PhaseStep(c)
        /\ (Phase(conn[c]) = "Relaying" /\ Phase(conn'[c]) = "Failed") =>
              \/ conn'[c].copy_result = "err"
              \/ conn'[c].copy_result = "ok" /\ ShutHalf(conn'[c]) = "failed"

C13_StateMachine == [][C13_Amended]_vars

\* A connection that relayed a byte to the backend, half-closed on the
\* client's end-of-stream and is Closed.
C13_Witness ==
    \E c \in Conns :
        /\ Phase(conn[c]) = "Closed"
        /\ conn[c].handle_result = "ok" /\ conn[c].first = "c2s"
        /\ conn[c].wo = "shutdown"
        /\ conn[c].dir["c2s"].got >= 1

\* C14: main ends only by an Err of accept, taken at the accept position and
\* changing nothing else; once it has ended nothing happens any more: no
\* accept is retried, no connection is accepted, selected for or dispatched,
\* and no task runs on.
C14_Step ==
    /\ pc = "fatal" => vars' = vars
    /\ (pc' = "fatal" /\ pc # "fatal") =>
          /\ pc = "accept"
          /\ <<backends, socket, selectVars, stable, accepted, conn>>'
                 = <<backends, socket, selectVars, stable, accepted, conn>>

C14_ListenerFatal == [][C14_Step]_vars

\* accept failed after the first connection was dispatched: its relay is cut
\* with the process, and connections are left unaccepted.
C14_Witness ==
    /\ pc = "fatal"
    /\ accepted = 1 /\ accepted < MaxConns
    /\ conn[1].st = "relaying"
    /\ Count(conn[1].backend) = 1

\* Tasks holding the counter of backend b that are past their increment and
\* before their decrement.
Between(b) ==
    {c \in Conns : conn[c].backend = b
                   /\ conn[c].st \in {"connecting", "relaying", "shutdown", "returned"}}

\* C15: every counter equals the number of tasks of its backend that have
\* incremented and not yet decremented.
C15_NoLostUpdate == \A b \in Backends : Count(b) = Cardinality(Between(b))

\* Both connections were counted on the first backend and are being relayed.
C15_Witness ==
    /\ \A c \in Conns : conn[c].backend = 1 /\ conn[c].st = "relaying"
    /\ Count(1) = MaxConns

\* C16: when the first direction to finish ended with an I/O error, the relay
\* returns that error, and shutdown was called on the write half of that
\* direction's destination before it returned.
C16_HalfCloseOnError ==
    \A c \in Conns :
        (Returned(c) /\ conn[c].copy_result = "err") =>
            /\ conn[c].handle_result = "err"
            /\ ShutHalf(conn[c]) # "open"

\* Every later connection was accepted and either rejected or dispatched and
\* relayed to the end of its task, and the only counter left above 0 is the
\* one the stalled connection holds.
OthersFinished ==
    /\ conn[Stalled].st = "relaying"
    /\ accepted = MaxConns /\ pc = "accept"
    /\ \A c \in Conns \ {Stalled} : conn[c].st \in {"done", "rejected"}
    /\ \A b \in Backends :
          Count(b) = (IF b = conn[Stalled].backend THEN 1 ELSE 0)

\* C17: once the relay of a connection has started and never finishes, main
\* still accepts, selects for and dispatches every later connection and their
\* tasks run to their end; all that remains is the stalled connection's
\* increment of its backend's counter.
C17_StalledRelay == (conn[Stalled].st = "relaying") ~> OthersFinished

\* The stalled connection is still relaying after a later connection was
\* relayed successfully on the same backend and its task ended.
C17_Witness ==
    /\ OthersFinished
    /\ \E c \in Conns \ {Stalled} :
          /\ conn[c].st = "done" /\ conn[c].handle_result = "ok"
          /\ conn[c].backend = conn[Stalled].backend

\* Connections main has dispatched whose task has not yet run its increment.
Uncounted(b) == {c \in Conns : conn[c].backend = b /\ conn[c].st = "spawned"}

\* C18: the count a selection reads for the backend it returns covers only the
\* tasks past their increment: a connection dispatched to that backend whose
\* task has not incremented yet is left out, so the next selection can read
\* the same count and return the same backend.
C18_StaleRead ==
    (pc = "selected" /\ stable /\ min_conn_backend # 0) =>
        /\ min_conns = Cardinality(Between(min_conn_backend))
        /\ min_conns = Count(min_conn_backend)
        /\ \A c \in Uncounted(min_conn_backend) : conn[c].incs = 0

\* Both backends answered their probe at count 0 in the second selection,
\* which returns the first backend again although the first connection was
\* dispatched to it: counting that connection, the second backend is lower.
C18_Witness ==
    /\ pc = "selected" /\ stable /\ socket = 2
    /\ probed = <<TRUE, TRUE>>
    /\ min_conn_backend = 1 /\ min_conns = 0
    /\ conn[1].backend = 1 /\ conn[1].st = "spawned" /\ conn[1].incs = 0
    /\ Count(2) = 0
    /\ Count(2) < Count(1) + Cardinality(Uncounted(1))

\* Connections accepted by main for which select_backend has not returned or
\* whose outcome main has not yet acted on.
Selecting == {c \in Conns : conn[c].st = "accepted"}

\* C19: at most one selection is in progress, the one for the connection main
\* holds; it is at one position of its loop with one probe per backend passed,
\* and main is at accept exactly when no selection is in progress.
C19_SerializedSelection ==
    /\ Cardinality(Selecting) <= 1
    /\ pc \in {"select", "selected"} <=> Selecting # {}
    /\ pc \in {"select", "selected"} => Selecting = {socket}
    /\ pc \in {"accept", "fatal"} => socket = 0
    /\ pc \in {"select", "selected"} =>
          /\ iter \in 1..(Len(backends) + 1)
          /\ Len(probed) = iter - 1
          /\ accepted = socket
    /\ pc = "selected" => iter = Len(backends) + 1

\* The selection for the second connection is between its two probes while
\* the task of the first connection is in its relay and has changed a counter
\* since the selection started.
C19_Witness ==
    /\ pc = "select" /\ socket = 2 /\ iter = 2 /\ ~stable
    /\ conn[1].st = "relaying"
    /\ Selecting = {2}

====
